---- MODULE Spec2Model ----
(***************************************************************************)
(* Model of PySceneDetect's OpenCV video stream adapter:                   *)
(*   scenedetect/video_stream.py    (VideoStream, compute_downscale_factor)*)
(*   scenedetect/backends/opencv.py (VideoStreamCv2)                       *)
(*                                                                         *)
(* One VideoStreamCv2 object is modelled, from its construction on.  The   *)
(* caller is sequential (one call at a time), so every public method is    *)
(* one atomic action.  cv2.VideoCapture and FrameTimecode are not part of  *)
(* the two source files; they are modelled by the Cap... and Tc...         *)
(* operators from the interface the adapter consumes.                      *)
(*                                                                         *)
(* Python values:                                                          *)
(*   None               <<>>  (an Optional x is <<>> or <<x>>)             *)
(*   int k              [t |-> "int",   num |-> k, den |-> 1]              *)
(*   float n/d          [t |-> "float", num |-> n, den |-> d]              *)
(*   FrameTimecode      [t |-> "tc",    num |-> frame number, den |-> 1]   *)
(*                      as a seek target; [frame_num, framerate] as a value*)
(*   frame buffer       the 1-based index of the frame it holds, 0 = None  *)
(* Frame rates are integers in units of 1/RateDen frames per second.       *)
(***************************************************************************)
EXTENDS Integers, Sequences, FiniteSets, TLC

\* ---------------------------------------------------------------- bounds
MaxFrames == 2      \* longest stream considered (frames)
MaxReads == 3       \* advancing reads the caller issues in a row after (re)open

\* ------------------------------------------------------- Python numbers
None == <<>>
PyInt(k) == [t |-> "int", num |-> k, den |-> 1]
PyFloat(n, d) == [t |-> "float", num |-> n, den |-> d]
Timecode(n) == [t |-> "tc", num |-> n, den |-> 1]
NoTarget == [t |-> "none", num |-> 0, den |-> 1]

\* int(x / y) for y > 0: Python truncates toward zero.
Trunc(x, y) == IF x >= 0 THEN x \div y ELSE -((-x) \div y)

\* x < k for a Python number x and an integer k.
NumLess(x, k) == x.num < k * x.den

\* frame_timecode.MINIMUM_FRAMES_PER_SECOND_FLOAT (1.0 / 1001.0), in rate units.
RateDen == 1001
MINIMUM_FRAMES_PER_SECOND_FLOAT == 1

VARIABLES
    status,          \* "new" before __init__, "open" after it returned, "failed" if it raised
    path_or_device,  \* constructor argument
    override,        \* constructor argument override_framerate (Optional)
    video,           \* what the decoder reports for the source: fps, frame_count, width
    cap,             \* self._cap: None or the VideoCapture
    frame_rate,      \* self._frame_rate (Optional)
    has_seeked,      \* self._has_seeked
    has_grabbed,     \* self._has_grabbed
    downscale,       \* self._downscale, a Python number
    handles,         \* opened VideoCapture objects the adapter created and has not released
    last,            \* the most recent call: its arguments, outcome and decoder calls
    prev_seek,       \* the target of the call before it, if that was a seek that returned
    nadv,            \* advancing reads that reached the decoder since (re)open; 0 after a seek
    sought,          \* a seek reached the decoder since (re)open
    fresh,           \* no read, seek or reset was called since __init__ returned
    pending          \* a general-path seek returned and no read(advance=True) was called since

vars == <<status, path_or_device, override, video, cap, frame_rate, has_seeked,
          has_grabbed, downscale, handles, last, prev_seek, nadv, sought, fresh, pending>>

\* ------------------------------------------------------ input domains
Device(i) == [is_device |-> TRUE, device |-> i, percent |-> FALSE, url |-> FALSE]
Path(pc, u) == [is_device |-> FALSE, device |-> 0, percent |-> pc, url |-> u]

Sources == {Device(-1), Device(0), Path(FALSE, FALSE), Path(TRUE, FALSE), Path(FALSE, TRUE)}
Overrides == {None, <<RateDen>>}
DecoderRates == {0, MINIMUM_FRAMES_PER_SECOND_FLOAT, 2 * RateDen}
Widths == {1920}
\* frame_count 0: a source the decoder opens but delivers no frame from.
Videos == [fps : DecoderRates, frame_count : 0..MaxFrames, width : Widths]

SeekTargets ==
    {PyInt(k) : k \in -1..(MaxFrames + 1)}
    \cup {PyFloat(-1, 2), PyFloat(0, 1), PyFloat(1, 2), PyFloat(1, 1)}
    \cup {Timecode(k) : k \in 0..MaxFrames}

DownscaleValues == {PyInt(-3), PyInt(0), PyInt(2), PyFloat(27, 10)}

\* ------------------------------------------------- FrameTimecode (fps fixed)
TcAtFrame(n, fps) == [frame_num |-> n, framerate |-> fps]
TcGetFrames(tc) == tc.frame_num
TcSecondsToFrames(x, fps) == Trunc(x.num * fps, x.den * RateDen)
\* FrameTimecode.__add__: int adds frames, float adds seconds, timecode adds its frames.
TcAdd(tc, x) ==
    IF x.t = "float"
    THEN [tc EXCEPT !.frame_num = tc.frame_num + TcSecondsToFrames(x, tc.framerate)]
    ELSE [tc EXCEPT !.frame_num = tc.frame_num + x.num]

\* ------------------------------------------------- cv2.VideoCapture
\* A capture is [opened, pos, frame]: pos is CAP_PROP_POS_FRAMES, frame is the
\* grabbed frame retrieve() would decode (0: none).
VideoCapture(opens) == [opened |-> opens, pos |-> 0, frame |-> 0]
CapIsOpened(c) == c.opened
CapGrab(c) ==
    IF c.opened /\ c.pos < video.frame_count
    THEN [c EXCEPT !.pos = c.pos + 1, !.frame = c.pos + 1]
    ELSE [c EXCEPT !.frame = 0]
CapRetrieve(c) == IF c.opened THEN c.frame ELSE 0
CapSetPosFrames(c, n) ==
    IF c.opened
    THEN [c EXCEPT !.pos = IF n < 0 THEN 0 ELSE IF n > video.frame_count
                                                THEN video.frame_count ELSE n,
                   !.frame = 0]
    ELSE c
CapGetPosFrames(c) == IF c.opened THEN c.pos ELSE 0
CapGetPosMsec(c) ==
    IF c.opened /\ c.pos >= 1 /\ video.fps > 0
    THEN ((c.pos - 1) * 1000 * RateDen) \div video.fps
    ELSE 0
CapGetFrameWidth(c) == IF c.opened THEN video.width ELSE 0
CapRelease(c) == [opened |-> FALSE, pos |-> 0, frame |-> 0]

\* ------------------------------------------------- call records
\* env: for the constructor, whether the file existed and whether the decoder opened.
Call(op) == [op |-> op, decode |-> FALSE, advance |-> FALSE, target |-> NoTarget,
             err |-> "", ret |-> 0, calls |-> <<>>, env |-> <<>>]
NoCall == Call("none")

\* The target of the most recent call if it was a seek that raised nothing.
LastSeek == IF last.op = "seek" /\ last.err = "" THEN last.target ELSE NoTarget

\* ------------------------------------------------- video_stream.py
DEFAULT_DOWNSCALE_FACTORS ==
    (3200 :> 12) @@ (2100 :> 8) @@ (1700 :> 6) @@ (1200 :> 5) @@ (900 :> 4)
    @@ (600 :> 3) @@ (400 :> 2)

SetMax(S) == CHOOSE x \in S : \A y \in S : y <= x

\* sorted(keys, reverse=True)
RECURSIVE SortedReverse(_)
SortedReverse(S) ==
    IF S = {} THEN <<>> ELSE <<SetMax(S)>> \o SortedReverse(S \ {SetMax(S)})

\* The scan with a strict comparison: a width equal to a threshold misses it.
RECURSIVE FirstMatch_strict(_, _)
FirstMatch_strict(widths, frame_width) ==
    IF widths = <<>> THEN 1
    ELSE IF frame_width > Head(widths) THEN DEFAULT_DOWNSCALE_FACTORS[Head(widths)]
    ELSE FirstMatch_strict(Tail(widths), frame_width)

RECURSIVE FirstMatch(_, _)
FirstMatch(widths, frame_width) ==
    IF widths = <<>> THEN 1
    ELSE IF frame_width >= Head(widths) THEN DEFAULT_DOWNSCALE_FACTORS[Head(widths)]
    ELSE FirstMatch(Tail(widths), frame_width)

compute_downscale_factor(frame_width) ==
    FirstMatch(SortedReverse(DOMAIN DEFAULT_DOWNSCALE_FACTORS), frame_width)

\* The downscale setter that stores a non-integer value as it is.
downscale_setter_no_truncation(current, x) ==
    IF NumLess(x, 1) THEN [err |-> "ValueError", value |-> current]
    ELSE [err |-> "", value |-> x]

\* The downscale setter without the check of values below 1.
downscale_setter_no_range_check(current, x) ==
    IF x.t # "int" THEN [err |-> "", value |-> PyInt(Trunc(x.num, x.den))]
    ELSE [err |-> "", value |-> x]

\* The downscale setter: the error it raises ("" if none) and the value stored.
downscale_setter(current, x) ==
    IF NumLess(x, 1) THEN [err |-> "ValueError", value |-> current]
    ELSE IF x.t # "int" THEN [err |-> "", value |-> PyInt(Trunc(x.num, x.den))]
    ELSE [err |-> "", value |-> x]

base_timecode == TcAtFrame(0, frame_rate[1])

\* ------------------------------------------------- backends/opencv.py
is_seekable == ~path_or_device.is_device

frame_size_width == Trunc(CapGetFrameWidth(cap[1]), 1)

frame_number == Trunc(CapGetPosFrames(cap[1]), 1)

\* position without the frame_number < 1 case.
position_unguarded == TcAdd(base_timecode, PyInt(frame_number - 1))

position ==
    IF frame_number < 1 THEN base_timecode
    ELSE TcAdd(base_timecode, PyInt(frame_number - 1))

Truthy(opt) == opt # None /\ opt[1] # 0

OpenFail(e, made) == [err |-> e, created |-> made, leaked |-> FALSE,
                      cap |-> None, rate |-> None]

\* _open_capture that checks the existence of every path, patterns and URLs too.
open_capture_checks_every_path(framerate, exists, opens) ==
    IF path_or_device.is_device /\ path_or_device.device < 0
    THEN OpenFail("ValueError", FALSE)
    ELSE IF ~path_or_device.is_device /\ ~exists
    THEN OpenFail("IOError", FALSE)
    ELSE LET c == VideoCapture(opens) IN
         IF ~CapIsOpened(c) THEN OpenFail("VideoOpenFailure", TRUE)
         ELSE IF ~Truthy(framerate) /\ video.fps < MINIMUM_FRAMES_PER_SECOND_FLOAT
         THEN [OpenFail("VideoOpenFailure", TRUE) EXCEPT !.leaked = TRUE]
         ELSE [err |-> "", created |-> TRUE, leaked |-> FALSE, cap |-> <<c>>,
               rate |-> IF Truthy(framerate) THEN framerate ELSE <<video.fps>>]

\* _open_capture that also rejects a decoder rate equal to the minimum.
open_capture_rejects_minimum(framerate, exists, opens) ==
    IF path_or_device.is_device /\ path_or_device.device < 0
    THEN OpenFail("ValueError", FALSE)
    ELSE IF ~path_or_device.is_device
            /\ ~(path_or_device.percent \/ path_or_device.url) /\ ~exists
    THEN OpenFail("IOError", FALSE)
    ELSE LET c == VideoCapture(opens) IN
         IF ~CapIsOpened(c) THEN OpenFail("VideoOpenFailure", TRUE)
         ELSE IF ~Truthy(framerate) /\ video.fps <= MINIMUM_FRAMES_PER_SECOND_FLOAT
         THEN [OpenFail("VideoOpenFailure", TRUE) EXCEPT !.leaked = TRUE]
         ELSE [err |-> "", created |-> TRUE, leaked |-> FALSE, cap |-> <<c>>,
               rate |-> IF Truthy(framerate) THEN framerate ELSE <<video.fps>>]

\* _open_capture(framerate) with the file existing or not and the decoder
\* opening or not.  created: a VideoCapture was instantiated; leaked: an opened
\* VideoCapture was dropped without release().
open_capture(framerate, exists, opens) ==
    IF path_or_device.is_device /\ path_or_device.device < 0
    THEN OpenFail("ValueError", FALSE)
    ELSE IF ~path_or_device.is_device
            /\ ~(path_or_device.percent \/ path_or_device.url) /\ ~exists
    THEN OpenFail("IOError", FALSE)
    ELSE LET c == VideoCapture(opens) IN
         IF ~CapIsOpened(c) THEN OpenFail("VideoOpenFailure", TRUE)
         ELSE IF ~Truthy(framerate) /\ video.fps < MINIMUM_FRAMES_PER_SECOND_FLOAT
         THEN [OpenFail("VideoOpenFailure", TRUE) EXCEPT !.leaked = TRUE]
         ELSE [err |-> "", created |-> TRUE, leaked |-> FALSE, cap |-> <<c>>,
               rate |-> IF Truthy(framerate) THEN framerate ELSE <<video.fps>>]

\* seek's checks with the argument checks ahead of the device check.
seek_error_args_first(target) ==
    IF target.t = "int" /\ ~(target.num > 0) THEN "ValueError"
    ELSE IF target.t = "float" /\ NumLess(target, 0) THEN "ValueError"
    ELSE IF path_or_device.is_device THEN "SeekError"
    ELSE ""

\* seek's checks without the check of float targets.
seek_error_no_float_check(target) ==
    IF path_or_device.is_device THEN "SeekError"
    ELSE IF target.t = "int" /\ ~(target.num > 0) THEN "ValueError"
    ELSE ""

\* The argument checks at the top of seek: the exception raised, "" if none.
seek_error(target) ==
    IF path_or_device.is_device THEN "SeekError"
    ELSE IF target.t = "int" /\ ~(target.num > 0) THEN "ValueError"
    ELSE IF target.t = "float" /\ NumLess(target, 0) THEN "ValueError"
    ELSE ""

\* The conversion without the shift of integer targets.
seek_target_frame_cv2_unshifted(target) == TcGetFrames(TcAdd(base_timecode, target))

\* The conversion with the shift applied to timecode targets as well.
seek_target_frame_cv2_shifts_timecode(target) ==
    LET shifted == IF target.t = "int" THEN PyInt(target.num - 1)
                   ELSE IF target.t = "tc" THEN Timecode(target.num - 1)
                   ELSE target
    IN  TcGetFrames(TcAdd(base_timecode, shifted))

\* The general path's conversion of the target to the native frame index.
seek_target_frame_cv2(target) ==
    LET shifted == IF target.t = "int" THEN PyInt(target.num - 1) ELSE target
    IN  TcGetFrames(TcAdd(base_timecode, shifted))

\* seek that positions the decoder without the grab that follows.
seek_result_no_grab(c, hg, hs, target) ==
    IF seek_error(target) # ""
    THEN [err |-> seek_error(target), cap |-> c, has_grabbed |-> hg,
          has_seeked |-> hs, calls |-> <<>>]
    ELSE IF target.t = "int" /\ target.num = 0
    THEN [err |-> "", cap |-> CapSetPosFrames(c, 0), has_grabbed |-> FALSE,
          has_seeked |-> hs, calls |-> <<"set">>]
    ELSE [err |-> "",
          cap |-> CapSetPosFrames(c, seek_target_frame_cv2(target)),
          has_grabbed |-> TRUE, has_seeked |-> hs, calls |-> <<"set">>]

\* seek(target): exception, new capture state, new flags, decoder calls made.
seek_result(c, hg, hs, target) ==
    IF seek_error(target) # ""
    THEN [err |-> seek_error(target), cap |-> c, has_grabbed |-> hg,
          has_seeked |-> hs, calls |-> <<>>]
    ELSE IF target.t = "int" /\ target.num = 0
    THEN [err |-> "", cap |-> CapSetPosFrames(c, 0), has_grabbed |-> FALSE,
          has_seeked |-> hs, calls |-> <<"set">>]
    ELSE [err |-> "",
          cap |-> CapGrab(CapSetPosFrames(c, seek_target_frame_cv2(target))),
          has_grabbed |-> TRUE, has_seeked |-> hs, calls |-> <<"set", "grab">>]

\* read without the isOpened() early return.
read_result_no_open_check(c, hg, hs, decode, advance) ==
    LET c1 == IF advance THEN CapGrab(c) ELSE c
        hg1 == IF advance THEN TRUE ELSE hg
        hs1 == IF advance THEN FALSE ELSE hs
        k1 == IF advance THEN <<"grab">> ELSE <<>>
    IN  IF decode /\ hg1
        THEN [ret |-> CapRetrieve(c1), cap |-> c1, has_grabbed |-> hg1,
              has_seeked |-> hs1, calls |-> k1 \o <<"retrieve">>]
        ELSE [ret |-> 0, cap |-> c1, has_grabbed |-> hg1,
              has_seeked |-> hs1, calls |-> k1]

\* read that never grabs, whatever advance is.
read_result_never_grabs(c, hg, hs, decode, advance) ==
    IF ~CapIsOpened(c)
    THEN [ret |-> 0, cap |-> c, has_grabbed |-> hg, has_seeked |-> hs, calls |-> <<>>]
    ELSE IF decode /\ (hg \/ advance)
    THEN [ret |-> CapRetrieve(c), cap |-> c, has_grabbed |-> (hg \/ advance),
          has_seeked |-> (hs /\ ~advance), calls |-> <<"retrieve">>]
    ELSE [ret |-> 0, cap |-> c, has_grabbed |-> (hg \/ advance),
          has_seeked |-> (hs /\ ~advance), calls |-> <<>>]

\* read that grabs on every call, whatever advance is.
read_result_always_grabs(c, hg, hs, decode, advance) ==
    IF ~CapIsOpened(c)
    THEN [ret |-> 0, cap |-> c, has_grabbed |-> hg, has_seeked |-> hs, calls |-> <<>>]
    ELSE IF decode
    THEN [ret |-> CapRetrieve(CapGrab(c)), cap |-> CapGrab(c), has_grabbed |-> TRUE,
          has_seeked |-> FALSE, calls |-> <<"grab", "retrieve">>]
    ELSE [ret |-> 0, cap |-> CapGrab(c), has_grabbed |-> TRUE,
          has_seeked |-> FALSE, calls |-> <<"grab">>]

\* read(decode, advance): returned frame, new capture state, new flags, decoder calls.
read_result(c, hg, hs, decode, advance) ==
    IF ~CapIsOpened(c)
    THEN [ret |-> 0, cap |-> c, has_grabbed |-> hg, has_seeked |-> hs, calls |-> <<>>]
    ELSE LET c1 == IF advance THEN CapGrab(c) ELSE c
             hg1 == IF advance THEN TRUE ELSE hg
             hs1 == IF advance THEN FALSE ELSE hs
             k1 == IF advance THEN <<"grab">> ELSE <<>>
         IN  IF decode /\ hg1
             THEN [ret |-> CapRetrieve(c1), cap |-> c1, has_grabbed |-> hg1,
                   has_seeked |-> hs1, calls |-> k1 \o <<"retrieve">>]
             ELSE [ret |-> 0, cap |-> c1, has_grabbed |-> hg1,
                   has_seeked |-> hs1, calls |-> k1]

\* reset that reopens with no frame rate instead of self._frame_rate.
reset_result_requery_rate(c, fr, hg, hs, exists, opens) ==
    LET released == CapRelease(c)
        r == open_capture(None, exists, opens)
        k == <<"release">> \o (IF r.created THEN <<"VideoCapture">> ELSE <<>>)
    IN  [err |-> r.err,
         cap |-> IF r.err = "" THEN r.cap[1] ELSE released,
         frame_rate |-> IF r.err = "" THEN r.rate ELSE fr,
         has_grabbed |-> IF r.err = "" THEN FALSE ELSE hg,
         has_seeked |-> IF r.err = "" THEN FALSE ELSE hs,
         freed |-> IF CapIsOpened(c) THEN 1 ELSE 0,
         acquired |-> IF r.err = "" \/ r.leaked THEN 1 ELSE 0,
         calls |-> k]

\* reset(): release the capture, then _open_capture(self._frame_rate); when that
\* raises, the released capture and the old fields stay.
reset_result(c, fr, hg, hs, exists, opens) ==
    LET released == CapRelease(c)
        r == open_capture(fr, exists, opens)
        k == <<"release">> \o (IF r.created THEN <<"VideoCapture">> ELSE <<>>)
    IN  [err |-> r.err,
         cap |-> IF r.err = "" THEN r.cap[1] ELSE released,
         frame_rate |-> IF r.err = "" THEN r.rate ELSE fr,
         has_grabbed |-> IF r.err = "" THEN FALSE ELSE hg,
         has_seeked |-> IF r.err = "" THEN FALSE ELSE hs,
         freed |-> IF CapIsOpened(c) THEN 1 ELSE 0,
         acquired |-> IF r.err = "" \/ r.leaked THEN 1 ELSE 0,
         calls |-> k]

\* position_ms: the exception raised ("" if none) and the value returned.
position_ms_result(c, hs) ==
    IF hs THEN [err |-> "RuntimeError", ret |-> 0]
    ELSE [err |-> "", ret |-> CapGetPosMsec(c)]

\* ------------------------------------------------- state machine
Init ==
    /\ status = "new"
    /\ path_or_device \in Sources
    /\ override \in Overrides
    /\ video \in Videos
    /\ cap = None
    /\ frame_rate = None
    /\ has_seeked = FALSE
    /\ has_grabbed = FALSE
    /\ downscale = PyInt(1)
    /\ handles = 0
    /\ last = NoCall
    /\ prev_seek = NoTarget
    /\ nadv = 0
    /\ sought = FALSE
    /\ fresh = TRUE
    /\ pending = FALSE

\* VideoStreamCv2.__init__
Open ==
    /\ status = "new"
    /\ \E exists \in BOOLEAN, opens \in BOOLEAN :
        LET r == open_capture(override, exists, opens) IN
        /\ status' = IF r.err = "" THEN "open" ELSE "failed"
        /\ cap' = r.cap
        /\ frame_rate' = r.rate
        \* A capture dropped without release() stays open until the garbage
        \* collector finalises it, which may or may not have happened.
        /\ \E collected \in BOOLEAN :
                handles' = IF r.err = "" \/ (r.leaked /\ ~collected)
                           THEN handles + 1 ELSE handles
        /\ last' = [Call("open") EXCEPT !.err = r.err, !.env = <<exists, opens>>,
                        !.calls = IF r.created THEN <<"VideoCapture">> ELSE <<>>]
    /\ prev_seek' = LastSeek
    /\ has_seeked' = FALSE
    /\ has_grabbed' = FALSE
    /\ UNCHANGED <<path_or_device, override, video, downscale, nadv, sought, fresh,
                   pending>>

\* VideoStreamCv2.read
Read(decode, advance) ==
    /\ status = "open"
    /\ (advance /\ ~sought) => nadv < MaxReads
    /\ LET r == read_result(cap[1], has_grabbed, has_seeked, decode, advance) IN
        /\ cap' = <<r.cap>>
        /\ has_grabbed' = r.has_grabbed
        /\ has_seeked' = r.has_seeked
        /\ last' = [Call("read") EXCEPT !.decode = decode, !.advance = advance,
                        !.ret = r.ret, !.calls = r.calls]
    /\ prev_seek' = LastSeek
    /\ nadv' = IF advance /\ CapIsOpened(cap[1]) /\ ~sought THEN nadv + 1 ELSE nadv
    /\ pending' = IF advance THEN FALSE ELSE pending
    /\ fresh' = FALSE
    /\ UNCHANGED <<status, path_or_device, override, video, frame_rate, downscale,
                   handles, sought>>

\* VideoStreamCv2.seek
Seek(target) ==
    /\ status = "open"
    /\ LET r == seek_result(cap[1], has_grabbed, has_seeked, target) IN
        /\ cap' = <<r.cap>>
        /\ has_grabbed' = r.has_grabbed
        /\ has_seeked' = r.has_seeked
        /\ last' = [Call("seek") EXCEPT !.target = target, !.err = r.err,
                        !.calls = r.calls]
        /\ sought' = (sought \/ r.calls # <<>>)
        /\ pending' = (pending \/ Len(r.calls) = 2)
        /\ nadv' = IF r.calls # <<>> THEN 0 ELSE nadv
    /\ prev_seek' = LastSeek
    /\ fresh' = FALSE
    /\ UNCHANGED <<status, path_or_device, override, video, frame_rate, downscale,
                   handles>>

\* VideoStreamCv2.reset
Reset ==
    /\ status = "open"
    /\ \E exists \in BOOLEAN, opens \in BOOLEAN :
        LET r == reset_result(cap[1], frame_rate, has_grabbed, has_seeked, exists, opens)
        IN
        /\ cap' = <<r.cap>>
        /\ frame_rate' = r.frame_rate
        /\ has_seeked' = r.has_seeked
        /\ has_grabbed' = r.has_grabbed
        /\ handles' = handles - r.freed + r.acquired
        /\ last' = [Call("reset") EXCEPT !.err = r.err, !.calls = r.calls]
        /\ nadv' = IF r.err = "" THEN 0 ELSE nadv
        /\ sought' = IF r.err = "" THEN FALSE ELSE sought
        /\ pending' = IF r.err = "" THEN FALSE ELSE pending
    /\ prev_seek' = LastSeek
    /\ fresh' = FALSE
    /\ UNCHANGED <<status, path_or_device, override, video, downscale>>

\* VideoStreamCv2.position_ms
PositionMs ==
    /\ status = "open"
    /\ LET r == position_ms_result(cap[1], has_seeked) IN
        last' = [Call("position_ms") EXCEPT !.err = r.err, !.ret = r.ret]
    /\ prev_seek' = LastSeek
    /\ UNCHANGED <<status, path_or_device, override, video, cap, frame_rate, has_seeked,
                   has_grabbed, downscale, handles, nadv, sought, fresh, pending>>

\* VideoStream.downscale = x
SetDownscale(x) ==
    /\ status = "open"
    /\ LET r == downscale_setter(downscale, x) IN
        /\ downscale' = r.value
        /\ last' = [Call("downscale") EXCEPT !.target = x, !.err = r.err]
    /\ prev_seek' = LastSeek
    /\ UNCHANGED <<status, path_or_device, override, video, cap, frame_rate, has_seeked,
                   has_grabbed, handles, nadv, sought, fresh, pending>>

\* VideoStream.downscale_auto
DownscaleAuto ==
    /\ status = "open"
    /\ LET x == PyInt(compute_downscale_factor(frame_size_width))
           r == downscale_setter(downscale, x) IN
        /\ downscale' = r.value
        /\ last' = [Call("downscale_auto") EXCEPT !.target = x, !.err = r.err]
    /\ prev_seek' = LastSeek
    /\ UNCHANGED <<status, path_or_device, override, video, cap, frame_rate, has_seeked,
                   has_grabbed, handles, nadv, sought, fresh, pending>>

Next ==
    \/ Open
    \/ \E decode \in BOOLEAN, advance \in BOOLEAN : Read(decode, advance)
    \/ \E target \in SeekTargets : Seek(target)
    \/ Reset
    \/ PositionMs
    \/ \E x \in DownscaleValues : SetDownscale(x)
    \/ DownscaleAuto

Spec == Init /\ [][Next]_vars

\* ------------------------------------------------- the constructor alone
\* Every source with every frame rate override, among them 0.0 (which counts as no
\* override) and an override equal to the minimum rate.
OverridesOpen == {None, <<0>>, <<MINIMUM_FRAMES_PER_SECOND_FLOAT>>, <<RateDen>>}

InitOpen ==
    /\ status = "new"
    /\ path_or_device \in Sources
    /\ override \in OverridesOpen
    /\ video \in Videos
    /\ cap = None
    /\ frame_rate = None
    /\ has_seeked = FALSE
    /\ has_grabbed = FALSE
    /\ downscale = PyInt(1)
    /\ handles = 0
    /\ last = NoCall
    /\ prev_seek = NoTarget
    /\ nadv = 0
    /\ sought = FALSE
    /\ fresh = TRUE
    /\ pending = FALSE

NextOpen == Open

SpecOpen == InitOpen /\ [][NextOpen]_vars

\* ------------------------------------------------- downscale alone
\* An adapter just opened on an existing file, for frame widths on both sides of
\* every threshold of DEFAULT_DOWNSCALE_FACTORS, and the downscale property only.
WidthsDownscale ==
    {0, 399, 400, 401, 599, 600, 899, 900, 1199, 1200, 1699, 1700, 2099, 2100,
     3199, 3200, 3201, 4000}

DownscaleValuesMore ==
    {PyInt(-3), PyInt(0), PyInt(1), PyInt(2), PyInt(5), PyFloat(-1, 2), PyFloat(1, 2),
     PyFloat(1, 1), PyFloat(27, 10), PyFloat(399, 100)}

InitDownscale ==
    /\ status = "open"
    /\ path_or_device = Path(FALSE, FALSE)
    /\ override = None
    /\ video \in [fps : {2 * RateDen}, frame_count : {1}, width : WidthsDownscale]
    /\ cap = <<VideoCapture(TRUE)>>
    /\ frame_rate = <<video.fps>>
    /\ has_seeked = FALSE
    /\ has_grabbed = FALSE
    /\ downscale = PyInt(1)
    /\ handles = 1
    /\ last = [Call("open") EXCEPT !.env = <<TRUE, TRUE>>, !.calls = <<"VideoCapture">>]
    /\ prev_seek = NoTarget
    /\ nadv = 0
    /\ sought = FALSE
    /\ fresh = TRUE
    /\ pending = FALSE

NextDownscale ==
    \/ \E x \in DownscaleValuesMore : SetDownscale(x)
    \/ DownscaleAuto

SpecDownscale == InitDownscale /\ [][NextDownscale]_vars

\* ------------------------------------------------- properties
IsOpen == status = "open" /\ CapIsOpened(cap[1])

\* The frame rate __init__ resolves: the override if one is given, else the decoder's.
ResolvedAtOpen == IF Truthy(override) THEN override ELSE <<video.fps>>

\* C1: after a successful open and before any read or seek, frame_number is 0,
\* position is base_timecode, and neither has_grabbed nor has_seeked is set.
C1_FreshlyOpened ==
    (status = "open" /\ fresh) =>
        /\ frame_number = 0
        /\ position = TcAtFrame(0, frame_rate[1])
        /\ ~has_grabbed
        /\ ~has_seeked

C1_Witness ==
    status = "open" /\ fresh /\ last.op = "position_ms" /\ prev_seek = NoTarget

\* C2: n >= 1 advancing reads on a freshly (re)opened adapter whose stream has at
\* least n frames, with no seek in between, give frame_number = n and
\* position = base_timecode + (n - 1).
C2_AdvancingReads ==
    (IsOpen /\ ~sought /\ nadv >= 1 /\ nadv <= video.frame_count) =>
        /\ frame_number = nadv
        /\ position = TcAtFrame(nadv - 1, frame_rate[1])

C2_Witness ==
    /\ IsOpen /\ ~sought /\ nadv = 2 /\ video.frame_count >= 2
    /\ last.op = "read" /\ last.advance /\ ~last.decode

\* The call before the last one was seek(k) with an integer k in 1..frame_count,
\* the last one read(advance=True), both on an open seekable adapter.
SeekThenRead(k) ==
    /\ IsOpen /\ is_seekable
    /\ prev_seek = PyInt(k) /\ k >= 1 /\ k <= video.frame_count
    /\ last.op = "read" /\ last.advance

\* C3 as stated: seek(k), k >= 1 within the stream, followed at once by one
\* read(advance=True) yields frame_number = k.
C3_SeekThenReadGivesK ==
    \A k \in 1..MaxFrames : SeekThenRead(k) => frame_number = k

\* C3 amended: seek(k) itself grabs frame k, so the advancing read that follows
\* moves to frame k + 1 whenever the stream has a frame k + 1, and that is the
\* frame it decodes.
C3_SeekThenReadGivesNext ==
    \A k \in 1..MaxFrames :
        (SeekThenRead(k) /\ k + 1 <= video.frame_count) =>
            /\ frame_number = k + 1
            /\ last.decode => last.ret = k + 1

C3_Witness ==
    /\ SeekThenRead(1) /\ video.frame_count = 2 /\ frame_number = 2
    /\ last.decode /\ last.ret = 2

\* C4: on a seekable adapter seek(0) raises nothing and leaves frame_number = 0,
\* position = base_timecode and has_grabbed unset, as after open or reset.
C4_SeekZeroAccepted ==
    (IsOpen /\ is_seekable /\ last.op = "seek" /\ last.target = PyInt(0)) =>
        /\ last.err = ""
        /\ frame_number = 0
        /\ position = TcAtFrame(0, frame_rate[1])
        /\ ~has_grabbed

\* C5: position_ms raises while a seek to a non-zero target has returned and no
\* read(advance=True) was called since, and returns a value otherwise.
C5_PositionMsStale ==
    (status = "open" /\ last.op = "position_ms") =>
        (last.err = "RuntimeError") = pending

\* C6: on a device seek raises SeekError for every target and changes neither the
\* capture nor has_grabbed nor has_seeked.
C6_DeviceSeekFails ==
    [][(status = "open" /\ path_or_device.is_device /\ last'.op = "seek") =>
            /\ last'.err = "SeekError"
            /\ last'.calls = <<>>
            /\ cap' = cap
            /\ has_grabbed' = has_grabbed
            /\ has_seeked' = has_seeked]_vars

C6_Witness ==
    /\ status = "open" /\ path_or_device.is_device /\ last.op = "seek"
    /\ last.target = PyInt(-1) /\ last.err = "SeekError" /\ has_grabbed

\* C7: on a seekable adapter a negative integer or negative float target raises
\* ValueError with no decoder call, leaving frame_number and both flags as they were.
C7_NegativeTargetRejected ==
    [][(/\ status = "open" /\ is_seekable /\ last'.op = "seek"
        /\ last'.target.t \in {"int", "float"} /\ last'.target.num < 0) =>
            /\ last'.err = "ValueError"
            /\ last'.calls = <<>>
            /\ cap' = cap
            /\ frame_number' = frame_number
            /\ has_grabbed' = has_grabbed
            /\ has_seeked' = has_seeked]_vars

C7_Witness ==
    /\ IsOpen /\ is_seekable /\ last.op = "seek" /\ last.target = PyFloat(-1, 2)
    /\ last.err = "ValueError" /\ frame_number = 2 /\ has_grabbed

\* C8: a reset that reopens the decoder leaves frame_number = 0,
\* position = base_timecode, both flags unset, the frame rate resolved at the
\* original open, and downscale as it was.
C8_ResetToInitial ==
    [][(status = "open" /\ last'.op = "reset" /\ last'.err = "") =>
            /\ frame_number' = 0
            /\ position' = TcAtFrame(0, frame_rate'[1])
            /\ ~has_grabbed'
            /\ ~has_seeked'
            /\ frame_rate' = frame_rate
            /\ frame_rate' = ResolvedAtOpen
            /\ downscale' = downscale]_vars

C8_Witness ==
    /\ IsOpen /\ last.op = "reset" /\ last.err = "" /\ downscale = PyInt(2)
    /\ Truthy(override) /\ video.fps # override[1]

\* C9: with the decoder not open, read returns None for every decode and advance,
\* raises nothing, makes no grab or retrieve, and leaves both flags as they were.
C9_ReadOnClosedDecoder ==
    [][(status = "open" /\ ~CapIsOpened(cap[1]) /\ last'.op = "read") =>
            /\ last'.ret = 0
            /\ last'.err = ""
            /\ last'.calls = <<>>
            /\ has_grabbed' = has_grabbed
            /\ has_seeked' = has_seeked]_vars

C9_Witness ==
    /\ status = "open" /\ ~CapIsOpened(cap[1]) /\ last.op = "read"
    /\ last.decode /\ last.advance /\ last.ret = 0 /\ ~has_grabbed

\* C10: read(advance=False) changes neither frame_number nor has_grabbed nor
\* has_seeked, and returns a frame only if decode and has_grabbed are true.
C10_NonAdvancingRead ==
    [][(status = "open" /\ last'.op = "read" /\ ~last'.advance) =>
            /\ frame_number' = frame_number
            /\ has_grabbed' = has_grabbed
            /\ has_seeked' = has_seeked
            /\ (last'.ret # 0 => (last'.decode /\ has_grabbed))
            /\ (~last'.decode => last'.ret = 0)
            /\ (~has_grabbed => last'.ret = 0)]_vars

C10_Witness ==
    /\ IsOpen /\ last.op = "read" /\ ~last.advance /\ last.decode
    /\ last.ret = 2 /\ frame_number = 2 /\ has_grabbed

\* C11: assigning downscale a value below 1 raises ValueError and leaves the stored
\* value as it was; a non-integer value >= 1 is stored truncated to an integer; an
\* integer >= 1 is stored as it is.
C11_DownscaleSetter ==
    [][(last'.op = "downscale") =>
            LET x == last'.target IN
            /\ (x.num < x.den) => (last'.err = "ValueError" /\ downscale' = downscale)
            /\ (x.num >= x.den /\ x.t = "float") =>
                   (last'.err = "" /\ downscale' = PyInt(x.num \div x.den))
            /\ (x.num >= x.den /\ x.t = "int") =>
                   (last'.err = "" /\ downscale' = x)]_vars

C11_Witness ==
    /\ last.op = "downscale" /\ last.target = PyFloat(27, 10) /\ last.err = ""
    /\ downscale = PyInt(2) /\ video.width = 3200

\* The table of C12 and the factor of the largest threshold not above w (1 if none).
C12_Table ==
    (3200 :> 12) @@ (2100 :> 8) @@ (1700 :> 6) @@ (1200 :> 5) @@ (900 :> 4)
    @@ (600 :> 3) @@ (400 :> 2)
C12_Expected(w) ==
    LET below == {t \in DOMAIN C12_Table : t <= w}
    IN  IF below = {} THEN 1
        ELSE C12_Table[CHOOSE t \in below : \A u \in below : u <= t]

\* C12: compute_downscale_factor(w) is the factor of the largest threshold not
\* exceeding w, 1 below 400, and so never decreases as w grows.
C12_DownscaleFactor ==
    /\ \A w \in WidthsDownscale : compute_downscale_factor(w) = C12_Expected(w)
    /\ \A w \in WidthsDownscale : w < 400 => compute_downscale_factor(w) = 1
    /\ \A w1, w2 \in WidthsDownscale :
           w1 <= w2 => compute_downscale_factor(w1) <= compute_downscale_factor(w2)
    /\ last.op = "downscale_auto" => last.target = PyInt(C12_Expected(video.width))

C12_Witness ==
    last.op = "downscale_auto" /\ video.width = 1700 /\ last.target = PyInt(6)

\* C15: whatever downscale assignments and downscale_auto calls were made, the
\* stored downscale is an integer >= 1, and downscale_auto stores
\* compute_downscale_factor of the frame width.
C15_DownscalePositiveInteger ==
    /\ downscale.t = "int" /\ downscale.den = 1 /\ downscale.num >= 1
    /\ last.op = "downscale_auto" =>
           (last.err = "" /\ downscale = PyInt(compute_downscale_factor(video.width)))

C15_Witness ==
    /\ last.op = "downscale_auto" /\ video.width = 3199 /\ downscale = PyInt(8)
    /\ last.err = ""

\* What the constructor met and did, read from the record of the call.
OpenedDecoderAttempted == last.calls = <<"VideoCapture">>
PlainPath ==
    ~path_or_device.is_device /\ ~path_or_device.percent /\ ~path_or_device.url
RateQueried == override = None \/ override = <<0>>

\* C13: open validates its target before creating the decoder: a negative device
\* index fails and a missing plain local path raises IOError, both with no decoder
\* created; patterns, URLs and devices >= 0 skip the existence check; a decoder that
\* reports not-opened makes open raise VideoOpenFailure.
C13_OpenValidation ==
    (last.op = "open") =>
        /\ (path_or_device.is_device /\ path_or_device.device < 0) =>
               (status = "failed" /\ last.err = "ValueError" /\ last.calls = <<>>)
        /\ (PlainPath /\ ~last.env[1]) =>
               (status = "failed" /\ last.err = "IOError" /\ last.calls = <<>>)
        /\ (~PlainPath /\ ~(path_or_device.is_device /\ path_or_device.device < 0)) =>
               (last.err # "IOError" /\ OpenedDecoderAttempted)
        /\ (OpenedDecoderAttempted /\ ~last.env[2]) =>
               (status = "failed" /\ last.err = "VideoOpenFailure")

C13_Witness ==
    /\ last.op = "open" /\ path_or_device = Path(TRUE, FALSE) /\ last.env = <<FALSE, TRUE>>
    /\ status = "open" /\ OpenedDecoderAttempted

\* C14 as stated: with no override and a decoder rate at or below the minimum,
\* open raises VideoOpenFailure; every opened adapter has frame_rate above the minimum.
C14_RateAboveMinimum ==
    (last.op = "open") =>
        /\ (/\ override = None /\ OpenedDecoderAttempted /\ last.env[2]
            /\ video.fps <= MINIMUM_FRAMES_PER_SECOND_FLOAT) =>
               (status = "failed" /\ last.err = "VideoOpenFailure")
        /\ status = "open" => frame_rate[1] > MINIMUM_FRAMES_PER_SECOND_FLOAT

\* C14 amended: with no override (or 0.0) open raises VideoOpenFailure exactly when
\* the decoder rate is strictly below the minimum, so an adapter opened that way
\* has frame_rate >= the minimum; an override is taken as it is, unchecked.
C14_RateNotBelowMinimum ==
    (last.op = "open") =>
        /\ (/\ RateQueried /\ OpenedDecoderAttempted /\ last.env[2]
            /\ video.fps < MINIMUM_FRAMES_PER_SECOND_FLOAT) =>
               (status = "failed" /\ last.err = "VideoOpenFailure")
        /\ (/\ RateQueried /\ OpenedDecoderAttempted /\ last.env[2]
            /\ video.fps >= MINIMUM_FRAMES_PER_SECOND_FLOAT) =>
               (status = "open" /\ frame_rate = <<video.fps>>)
        /\ (status = "open" /\ RateQueried) =>
               frame_rate[1] >= MINIMUM_FRAMES_PER_SECOND_FLOAT
        /\ (status = "open" /\ ~RateQueried) => frame_rate = override

C14_Witness ==
    /\ last.op = "open" /\ status = "open" /\ override = None
    /\ video.fps = MINIMUM_FRAMES_PER_SECOND_FLOAT
    /\ frame_rate = <<MINIMUM_FRAMES_PER_SECOND_FLOAT>>

\* C16: a seek through the general path leaves has_seeked and has_grabbed set, and
\* has_seeked stays set until the next read(advance=True), which clears it.
C16_SeekPending ==
    (status = "open") =>
        /\ pending => (has_seeked /\ has_grabbed)
        /\ (last.op = "read" /\ last.advance /\ IsOpen) => ~has_seeked

\* C17: right after seek(k), k an integer in 1..frame_count, frame_number is k and
\* position is base_timecode + (k - 1); read(decode=True, advance=False) then
\* returns frame k and leaves frame_number at k.
C17_SeekLandsOnTarget ==
    \A k \in 1..MaxFrames :
        /\ (/\ IsOpen /\ is_seekable /\ k <= video.frame_count
            /\ last.op = "seek" /\ last.err = "" /\ last.target = PyInt(k)) =>
               (frame_number = k /\ position = TcAtFrame(k - 1, frame_rate[1]))
        /\ (/\ IsOpen /\ is_seekable /\ k <= video.frame_count /\ prev_seek = PyInt(k)
            /\ last.op = "read" /\ last.decode /\ ~last.advance) =>
               (last.ret = k /\ frame_number = k)

C17_Witness ==
    /\ IsOpen /\ is_seekable /\ video.frame_count = 2 /\ prev_seek = PyInt(2)
    /\ last.op = "read" /\ last.decode /\ ~last.advance /\ last.ret = 2
    /\ frame_number = 2

\* C18: has_grabbed is set only while the decoder holds a grabbed frame: after a
\* read(advance=True) or a seek whose grab fails it is unset, and
\* read(decode=True, advance=False) then returns None without a retrieve.
C18_HasGrabbedMeansFrame ==
    IsOpen =>
        /\ has_grabbed => cap[1].frame # 0
        /\ (last.op = "read" /\ last.decode /\ ~last.advance /\ cap[1].frame = 0) =>
               (last.ret = 0 /\ last.calls = <<>>)

\* C19: seek(Timecode at frame k - 1) leaves the adapter in the state seek(k) with
\* the integer k >= 1 would have left it in: same capture position, same flags.
C19_SeekIntegerAsTimecode ==
    [][(/\ status = "open" /\ is_seekable
        /\ last'.op = "seek" /\ last'.target.t = "tc") =>
            LET r == seek_result(cap[1], has_grabbed, has_seeked,
                                 PyInt(last'.target.num + 1))
            IN  /\ last'.err = r.err
                /\ cap' = <<r.cap>>
                /\ has_grabbed' = r.has_grabbed
                /\ has_seeked' = r.has_seeked]_vars

C19_Witness ==
    /\ IsOpen /\ is_seekable /\ last.op = "seek" /\ last.target = Timecode(1)
    /\ last.err = "" /\ frame_number = 2 /\ has_grabbed

\* C20: the adapter never has more than one opened decoder, and after an open or a
\* reset that raised no decoder it opened is left unreleased.
C20_HandlesReleased ==
    /\ handles <= 1
    /\ (last.op \in {"open", "reset"} /\ last.err # "") => handles = 0

\* C21: on an open adapter frame_number is 0 exactly when has_grabbed is unset, and
\* has_seeked is set only if has_grabbed is, so the flags encode one of INITIAL
\* (neither set), POSITIONED (has_grabbed only) and SEEK_PENDING (has_seeked).
C21_FlagsEncodeState ==
    IsOpen =>
        /\ (frame_number = 0) <=> ~has_grabbed
        /\ has_seeked => has_grabbed

====
